---- MODULE Spec2Model ----
(***************************************************************************)
(* zeropool.Pool[T]: a typed pool built from two sync.Pool containers.     *)
(* `items` holds pointers (cells) to pooled items, `pointers` holds the    *)
(* drained cells while callers use the items.  Get and Put are modelled at *)
(* the grain of their container calls and cell accesses, so that every     *)
(* interleaving of concurrent callers is explored.                         *)
(***************************************************************************)
EXTENDS Integers, Sequences, FiniteSets, TLC

\* ------------------------------------------------------------------ bounds
NumThreads == 2          \* goroutines calling Get and Put
MaxOps == 4              \* Get/Put invocations in one run (each allocates at most one cell)
MaxFairOps == 3          \* the same, in the runs under fairness (FairSpec)

\* len of the slices made by the factory of the tests
FactoryLen == 1024

Threads == 1..NumThreads
Cells == 1..MaxOps       \* addresses of the *T cells allocated so far: 1..ncells
Nil == 0                 \* the nil interface / nil pointer

\* ------------------------------------------------------------------ values of T
\* T is []byte as in the tests: a value is a slice identity.  Zero is the nil slice,
\* k > 0 is the slice made by the k-th factory call, negative values are slices the
\* caller made itself.
Zero == 0
Foreign == {-1}
Value == (-1)..MaxOps
SliceLen(v) == IF v = Zero THEN 0 ELSE IF v \in Foreign THEN 7 ELSE FactoryLen

\* item() of New's argument: each call returns a distinct slice
Factory(k) == k

VARIABLES
    hasNew,      \* TRUE: pool built by New(item); FALSE: zero value of Pool[T]
    lossy,       \* TRUE: the sync.Pools may evict what they hold
    items,       \* p.items: how many times each cell is in the container
    pointers,    \* p.pointers: likewise
    mem,         \* mem[c]: the T stored in cell c
    ncells,      \* cells allocated so far (&val in New, new(T) in Put)
    nfactory,    \* item() calls so far
    ops,         \* Get/Put invocations so far
    pc,          \* pc[t]: where goroutine t stands
    pooled,      \* local `pooled` of Get and Put
    ptr,         \* local `ptr` of Get and Put
    item,        \* local `item` of Get, argument `item` of Put
    path,        \* the branch the running call took at its container Get
    made,        \* the value item() returned to the running Get
    held,        \* held[t]: the values goroutine t got from Get and still uses
    putLog,      \* every value ever passed to Put
    disciplined, \* every Put so far handed over a value its caller held from Get
    placed,      \* placed[c]: <<v>> while c sits in items, v the argument of the Put
                 \* that released it there
    drew,        \* drew[t]: placed[c] of the cell c the running Get drew
    lastPut,     \* <<v>> right after a Put(v) that returned with no other call running
    expect,      \* expect[t]: <<v, n>> when the running Get is the first call after
                 \* that Put(v), n the number of cells items held at its draw
    alt,         \* the calls so far alternate Get, Put, Get, ...: kind of the last one
    joined,      \* goroutines that have called the pool so far: 1..joined
    limit        \* Get/Put invocations this run may make

config == <<hasNew, lossy, limit>>
counts == <<ncells, nfactory>>
caller == <<held, putLog, disciplined>>
vars == <<hasNew, lossy, items, pointers, mem, ncells, nfactory, ops, pc, pooled,
          ptr, item, path, made, held, putLog, disciplined, placed, drew, lastPut,
          expect, alt, joined, limit>>

\* ------------------------------------------------------------------ sync.Pool
\* A sync.Pool is an unordered bag of cells: Put adds a cell, Get takes any cell the
\* pool holds (or finds none), and a lossy pool may evict any cell at any moment.
EmptyBag == [c \in Cells |-> 0]
IsEmpty(b) == \A c \in Cells : b[c] = 0
BagPut(b, c) == [b EXCEPT ![c] = @ + 1]
BagTake(b, c) == [b EXCEPT ![c] = @ - 1]
BagSize(b) == LET RECURSIVE Sum(_)
                  Sum(n) == IF n = 0 THEN 0 ELSE b[n] + Sum(n - 1)
              IN Sum(MaxOps)

\* ------------------------------------------------------------------ construction
\* var pool Pool[T]  or  pool := New(item)
InitWith(n) ==
    /\ limit = n
    /\ hasNew \in BOOLEAN
    /\ lossy \in BOOLEAN
    /\ items = EmptyBag
    /\ pointers = EmptyBag
    /\ mem = [c \in Cells |-> Zero]
    /\ ncells = 0
    /\ nfactory = 0
    /\ ops = 0
    /\ pc = [t \in Threads |-> "idle"]
    /\ pooled = [t \in Threads |-> Nil]
    /\ ptr = [t \in Threads |-> Nil]
    /\ item = [t \in Threads |-> Zero]
    /\ path = [t \in Threads |-> "none"]
    /\ made = [t \in Threads |-> Zero]
    /\ held = [t \in Threads |-> <<>>]
    /\ putLog = {}
    /\ disciplined = TRUE
    /\ placed = [c \in Cells |-> <<>>]
    /\ drew = [t \in Threads |-> <<>>]
    /\ lastPut = <<>>
    /\ expect = [t \in Threads |-> <<>>]
    /\ alt = "start"
    /\ joined = 0

Init == InitWith(MaxOps)

\* the caller's values, kept in ascending order (which one it got first is immaterial)
RemoveAt(s, i) == SubSeq(s, 1, i - 1) \o SubSeq(s, i + 1, Len(s))
Insert(s, v) == LET k == Cardinality({i \in 1..Len(s) : s[i] <= v})
                IN SubSeq(s, 1, k) \o <<v>> \o SubSeq(s, k + 1, Len(s))

\* Goroutines are numbered in the order of their first call: goroutine t makes its
\* first call when goroutines 1..t-1 have made theirs.
Join(t) ==
    /\ t <= joined + 1
    /\ joined' = IF t > joined THEN t ELSE joined

OthersIdle(t) == \A u \in Threads \ {t} : pc[u] = "idle"

\* ------------------------------------------------------------------ Get
\* a goroutine calls p.Get(): the call and its first statement are one step
GetEnter(t) ==
    /\ pc[t] = "idle"
    /\ ops < limit
    /\ ops' = ops + 1
    /\ Join(t)
    /\ alt' = IF alt \in {"start", "P"} THEN "G" ELSE "off"
    /\ lastPut' = <<>>
    /\ expect' = [expect EXCEPT ![t] =
                     IF lastPut = <<>> THEN <<>> ELSE <<lastPut[1], BagSize(items)>>]

\* a slip: item() is called before the container is asked, on every Get
GetAcquireHitEager(t) ==
    /\ GetEnter(t)
    /\ \E c \in Cells :
          /\ items[c] > 0
          /\ items' = BagTake(items, c)
          /\ pooled' = [pooled EXCEPT ![t] = c]
          /\ drew' = [drew EXCEPT ![t] = placed[c]]
          /\ placed' = [placed EXCEPT ![c] = <<>>]
    /\ nfactory' = IF hasNew THEN nfactory + 1 ELSE nfactory
    /\ path' = [path EXCEPT ![t] = "hit"]
    /\ pc' = [pc EXCEPT ![t] = "g_read"]
    /\ UNCHANGED <<config, pointers, mem, ncells, ptr, item, made, caller>>

\* pooled := p.items.Get(), a pooled cell is drawn
GetAcquireHit(t) ==
    /\ GetEnter(t)
    /\ \E c \in Cells :
          /\ items[c] > 0
          /\ items' = BagTake(items, c)
          /\ pooled' = [pooled EXCEPT ![t] = c]
          /\ drew' = [drew EXCEPT ![t] = placed[c]]
          /\ placed' = [placed EXCEPT ![c] = <<>>]
    /\ path' = [path EXCEPT ![t] = "hit"]
    /\ pc' = [pc EXCEPT ![t] = "g_read"]
    /\ UNCHANGED <<config, pointers, mem, counts, ptr, item, made, caller>>

\* a slip: items.New returns new(T), the item() value is not stored in the cell
GetAcquireNewZeroCell(t) ==
    /\ GetEnter(t)
    /\ IsEmpty(items)
    /\ hasNew
    /\ nfactory' = nfactory + 1
    /\ ncells' = ncells + 1
    /\ mem' = [mem EXCEPT ![ncells + 1] = Zero]
    /\ made' = [made EXCEPT ![t] = Factory(nfactory + 1)]
    /\ pooled' = [pooled EXCEPT ![t] = ncells + 1]
    /\ path' = [path EXCEPT ![t] = "new"]
    /\ pc' = [pc EXCEPT ![t] = "g_read"]
    /\ UNCHANGED <<config, items, pointers, ptr, item, caller, placed, drew>>

\* pooled := p.items.Get(), nothing is drawn and items.New runs:
\* val := item(); return &val
GetAcquireNew(t) ==
    /\ GetEnter(t)
    /\ IsEmpty(items)
    /\ hasNew
    /\ nfactory' = nfactory + 1
    /\ ncells' = ncells + 1
    /\ mem' = [mem EXCEPT ![ncells + 1] = Factory(nfactory + 1)]
    /\ made' = [made EXCEPT ![t] = Factory(nfactory + 1)]
    /\ pooled' = [pooled EXCEPT ![t] = ncells + 1]
    /\ path' = [path EXCEPT ![t] = "new"]
    /\ pc' = [pc EXCEPT ![t] = "g_read"]
    /\ UNCHANGED <<config, items, pointers, ptr, item, caller, placed, drew>>

\* a slip: the zero-value pool wraps the zero T in a new cell, as items.New does
GetAcquireNilCell(t) ==
    /\ GetEnter(t)
    /\ IsEmpty(items)
    /\ ~hasNew
    /\ ncells' = ncells + 1
    /\ mem' = [mem EXCEPT ![ncells + 1] = Zero]
    /\ pooled' = [pooled EXCEPT ![t] = ncells + 1]
    /\ path' = [path EXCEPT ![t] = "nil"]
    /\ pc' = [pc EXCEPT ![t] = "g_read"]
    /\ UNCHANGED <<config, items, pointers, nfactory, ptr, item, made, caller,
                   placed, drew>>

\* pooled := p.items.Get(), nothing is drawn and items.New is nil
GetAcquireNil(t) ==
    /\ GetEnter(t)
    /\ IsEmpty(items)
    /\ ~hasNew
    /\ pooled' = [pooled EXCEPT ![t] = Nil]
    /\ path' = [path EXCEPT ![t] = "nil"]
    /\ pc' = [pc EXCEPT ![t] = "g_read"]
    /\ UNCHANGED <<config, items, pointers, mem, counts, ptr, item, made, caller,
                   placed, drew>>

\* a slip: the zero value is returned whatever was drawn
GetReadZero(t) ==
    /\ pc[t] = "g_read"
    /\ item' = [item EXCEPT ![t] = Zero]
    /\ pc' = [pc EXCEPT ![t] = "g_ret"]
    /\ UNCHANGED <<config, items, pointers, mem, counts, ops, pooled, ptr, path, made,
                   caller, placed, drew, lastPut, expect, alt, joined>>

\* a slip: no nil check, ptr := p.items.Get().(*T) panics on the nil interface
GetReadNoNilCheck(t) ==
    /\ pc[t] = "g_read"
    /\ IF pooled[t] = Nil
       THEN /\ pc' = [pc EXCEPT ![t] = "panic"]
            /\ UNCHANGED <<ptr, item>>
       ELSE /\ ptr' = [ptr EXCEPT ![t] = pooled[t]]
            /\ item' = [item EXCEPT ![t] = mem[pooled[t]]]
            /\ pc' = [pc EXCEPT ![t] = "g_rel"]
    /\ UNCHANGED <<config, items, pointers, mem, counts, ops, pooled, path, made,
                   caller, placed, drew, lastPut, expect, alt, joined>>

\* a slip: the cell is handed to p.pointers before its payload is read
GetReadReleased(t) ==
    /\ pc[t] = "g_read"
    /\ IF pooled[t] = Nil
       THEN /\ item' = [item EXCEPT ![t] = Zero]
            /\ pc' = [pc EXCEPT ![t] = "g_ret"]
            /\ UNCHANGED <<ptr, pointers>>
       ELSE /\ ptr' = [ptr EXCEPT ![t] = pooled[t]]
            /\ pointers' = BagPut(pointers, pooled[t])
            /\ item' = [item EXCEPT ![t] = mem[pooled[t]]]
            /\ pc' = [pc EXCEPT ![t] = "g_rel"]
    /\ UNCHANGED <<config, items, mem, counts, ops, pooled, path, made,
                   caller, placed, drew, lastPut, expect, alt, joined>>

\* if pooled == nil { var zero T; return zero }; ptr := pooled.(*T); item := *ptr
GetRead(t) ==
    /\ pc[t] = "g_read"
    /\ IF pooled[t] = Nil
       THEN /\ item' = [item EXCEPT ![t] = Zero]
            /\ pc' = [pc EXCEPT ![t] = "g_ret"]
            /\ UNCHANGED ptr
       ELSE /\ ptr' = [ptr EXCEPT ![t] = pooled[t]]
            /\ item' = [item EXCEPT ![t] = mem[pooled[t]]]
            /\ pc' = [pc EXCEPT ![t] = "g_rel"]
    /\ UNCHANGED <<config, items, pointers, mem, counts, ops, pooled, path, made,
                   caller, placed, drew, lastPut, expect, alt, joined>>

\* a slip: the drained cell is dropped instead of being kept in p.pointers
GetReleaseSkip(t) ==
    /\ pc[t] = "g_rel"
    /\ pc' = [pc EXCEPT ![t] = "g_ret"]
    /\ UNCHANGED <<config, items, pointers, mem, counts, ops, pooled, ptr, item, path,
                   made, caller, placed, drew, lastPut, expect, alt, joined>>

\* a slip: p.pointers is treated as holding one cell at most, Get waits for room
GetReleaseWait(t) ==
    /\ pc[t] = "g_rel"
    /\ IsEmpty(pointers)
    /\ pointers' = BagPut(pointers, ptr[t])
    /\ pc' = [pc EXCEPT ![t] = "g_ret"]
    /\ UNCHANGED <<config, items, mem, counts, ops, pooled, ptr, item, path, made,
                   caller, placed, drew, lastPut, expect, alt, joined>>

\* a slip: the drained cell goes back to p.items
GetReleaseToItems(t) ==
    /\ pc[t] = "g_rel"
    /\ items' = BagPut(items, ptr[t])
    /\ pc' = [pc EXCEPT ![t] = "g_ret"]
    /\ UNCHANGED <<config, pointers, mem, counts, ops, pooled, ptr, item, path, made,
                   caller, placed, drew, lastPut, expect, alt, joined>>

\* p.pointers.Put(ptr)
GetRelease(t) ==
    /\ pc[t] = "g_rel"
    /\ pointers' = BagPut(pointers, ptr[t])
    /\ pc' = [pc EXCEPT ![t] = "g_ret"]
    /\ UNCHANGED <<config, items, mem, counts, ops, pooled, ptr, item, path, made,
                   caller, placed, drew, lastPut, expect, alt, joined>>

\* return item: the caller now uses the value
GetReturn(t) ==
    /\ pc[t] = "g_ret"
    /\ held' = [held EXCEPT ![t] = Insert(@, item[t])]
    /\ pc' = [pc EXCEPT ![t] = "idle"]
    /\ pooled' = [pooled EXCEPT ![t] = Nil]
    /\ ptr' = [ptr EXCEPT ![t] = Nil]
    /\ item' = [item EXCEPT ![t] = Zero]
    /\ path' = [path EXCEPT ![t] = "none"]
    /\ made' = [made EXCEPT ![t] = Zero]
    /\ drew' = [drew EXCEPT ![t] = <<>>]
    /\ expect' = [expect EXCEPT ![t] = <<>>]
    /\ UNCHANGED <<config, items, pointers, mem, counts, ops, putLog, disciplined,
                   placed, lastPut, alt, joined>>

\* ------------------------------------------------------------------ Put
\* What a goroutine may pass to Put: a value it got from Get and stops using (ok), or
\* a slice it made itself, which it may pass again later (not ok: such a value is not
\* held from Get, and passing it twice is using it after Put).
PutArgs(t) ==
    {[v |-> held[t][i], rest |-> RemoveAt(held[t], i), ok |-> TRUE] :
        i \in 1..Len(held[t])}
    \cup {[v |-> x, rest |-> held[t], ok |-> FALSE] : x \in Foreign}

\* a goroutine calls p.Put(a.v): the call and its first statement are one step
PutEnter(t, a) ==
    /\ pc[t] = "idle"
    /\ ops < limit
    /\ ops' = ops + 1
    /\ Join(t)
    /\ item' = [item EXCEPT ![t] = a.v]
    /\ held' = [held EXCEPT ![t] = a.rest]
    /\ putLog' = putLog \cup {a.v}
    /\ disciplined' = (disciplined /\ a.ok)
    /\ alt' = IF alt = "G" THEN "P" ELSE "off"
    /\ lastPut' = <<>>

\* a slip: the spare cell is used and left in p.pointers
PutAcquireSparePeek(t) ==
    /\ \E a \in PutArgs(t) : PutEnter(t, a)
    /\ \E c \in Cells :
          /\ pointers[c] > 0
          /\ pooled' = [pooled EXCEPT ![t] = c]
          /\ ptr' = [ptr EXCEPT ![t] = c]
    /\ path' = [path EXCEPT ![t] = "spare"]
    /\ pc' = [pc EXCEPT ![t] = "p_write"]
    /\ UNCHANGED <<config, items, pointers, mem, counts, made, placed, drew, expect>>

\* a slip: a spare cell is drawn and new(T) is used all the same
PutAcquireSpareRealloc(t) ==
    /\ \E a \in PutArgs(t) : PutEnter(t, a)
    /\ \E c \in Cells :
          /\ pointers[c] > 0
          /\ pointers' = BagTake(pointers, c)
          /\ pooled' = [pooled EXCEPT ![t] = c]
    /\ ncells' = ncells + 1
    /\ mem' = [mem EXCEPT ![ncells + 1] = Zero]
    /\ ptr' = [ptr EXCEPT ![t] = ncells + 1]
    /\ path' = [path EXCEPT ![t] = "spare"]
    /\ pc' = [pc EXCEPT ![t] = "p_write"]
    /\ UNCHANGED <<config, items, nfactory, made, placed, drew, expect>>

\* pooled := p.pointers.Get(); pooled != nil: ptr = pooled.(*T)
PutAcquireSpare(t) ==
    /\ \E a \in PutArgs(t) : PutEnter(t, a)
    /\ \E c \in Cells :
          /\ pointers[c] > 0
          /\ pointers' = BagTake(pointers, c)
          /\ pooled' = [pooled EXCEPT ![t] = c]
          /\ ptr' = [ptr EXCEPT ![t] = c]
    /\ path' = [path EXCEPT ![t] = "spare"]
    /\ pc' = [pc EXCEPT ![t] = "p_write"]
    /\ UNCHANGED <<config, items, mem, counts, made, placed, drew, expect>>

\* a slip: no nil check, ptr := p.pointers.Get().(*T) panics on the nil interface
PutAcquireAllocPanic(t) ==
    /\ \E a \in PutArgs(t) : PutEnter(t, a)
    /\ IsEmpty(pointers)
    /\ pc' = [pc EXCEPT ![t] = "panic"]
    /\ UNCHANGED <<config, items, pointers, mem, counts, pooled, ptr, path, made,
                   placed, drew, expect>>

\* a slip: Put allocates a cell whether or not p.pointers holds one
PutAcquireAllocAlways(t) ==
    /\ \E a \in PutArgs(t) : PutEnter(t, a)
    /\ ncells' = ncells + 1
    /\ mem' = [mem EXCEPT ![ncells + 1] = Zero]
    /\ pooled' = [pooled EXCEPT ![t] = Nil]
    /\ ptr' = [ptr EXCEPT ![t] = ncells + 1]
    /\ path' = [path EXCEPT ![t] = "alloc"]
    /\ pc' = [pc EXCEPT ![t] = "p_write"]
    /\ UNCHANGED <<config, items, pointers, nfactory, made, placed, drew, expect>>

\* pooled := p.pointers.Get(); pooled == nil: ptr = new(T)
PutAcquireAlloc(t) ==
    /\ \E a \in PutArgs(t) : PutEnter(t, a)
    /\ IsEmpty(pointers)
    /\ ncells' = ncells + 1
    /\ mem' = [mem EXCEPT ![ncells + 1] = Zero]
    /\ pooled' = [pooled EXCEPT ![t] = Nil]
    /\ ptr' = [ptr EXCEPT ![t] = ncells + 1]
    /\ path' = [path EXCEPT ![t] = "alloc"]
    /\ pc' = [pc EXCEPT ![t] = "p_write"]
    /\ UNCHANGED <<config, items, pointers, nfactory, made, placed, drew, expect>>

\* a slip: the item is never stored in the cell
PutWriteSkip(t) ==
    /\ pc[t] = "p_write"
    /\ pc' = [pc EXCEPT ![t] = "p_rel"]
    /\ UNCHANGED <<config, items, pointers, mem, counts, ops, pooled, ptr, item, path,
                   made, caller, placed, drew, lastPut, expect, alt, joined>>

\* *ptr = item
PutWrite(t) ==
    /\ pc[t] = "p_write"
    /\ mem' = [mem EXCEPT ![ptr[t]] = item[t]]
    /\ pc' = [pc EXCEPT ![t] = "p_rel"]
    /\ UNCHANGED <<config, items, pointers, counts, ops, pooled, ptr, item, path,
                   made, caller, placed, drew, lastPut, expect, alt, joined>>

\* p.items.Put(ptr) and return
PutRelease(t) ==
    /\ pc[t] = "p_rel"
    /\ items' = BagPut(items, ptr[t])
    /\ placed' = [placed EXCEPT ![ptr[t]] = <<item[t]>>]
    /\ lastPut' = IF OthersIdle(t) THEN <<item[t]>> ELSE <<>>
    /\ pc' = [pc EXCEPT ![t] = "idle"]
    /\ pooled' = [pooled EXCEPT ![t] = Nil]
    /\ ptr' = [ptr EXCEPT ![t] = Nil]
    /\ item' = [item EXCEPT ![t] = Zero]
    /\ path' = [path EXCEPT ![t] = "none"]
    /\ UNCHANGED <<config, pointers, mem, counts, ops, made, caller, drew, expect,
                   alt, joined>>

\* ------------------------------------------------------------------ the containers' own moves
\* sync.Pool drops a cell it holds (garbage collection, race-mode shedding)
DiscardItem ==
    /\ lossy
    /\ \E c \in Cells :
          /\ items[c] > 0
          /\ items' = BagTake(items, c)
          /\ placed' = [placed EXCEPT ![c] = IF items[c] = 1 THEN <<>> ELSE @]
    /\ UNCHANGED <<config, pointers, mem, counts, ops, pc, pooled, ptr, item, path,
                   made, caller, drew, lastPut, expect, alt, joined>>

DiscardPointer ==
    /\ lossy
    /\ \E c \in Cells : pointers[c] > 0 /\ pointers' = BagTake(pointers, c)
    /\ UNCHANGED <<config, items, mem, counts, ops, pc, pooled, ptr, item, path,
                   made, caller, placed, drew, lastPut, expect, alt, joined>>

\* ------------------------------------------------------------------ specification
\* one step of goroutine t
Step(t) ==
    \/ GetAcquireHit(t) \/ GetAcquireNew(t) \/ GetAcquireNil(t)
    \/ GetRead(t) \/ GetRelease(t) \/ GetReturn(t)
    \/ PutAcquireSpare(t) \/ PutAcquireAlloc(t) \/ PutWrite(t) \/ PutRelease(t)

Next ==
    \/ \E t \in Threads : Step(t)
    \/ DiscardItem
    \/ DiscardPointer

Spec == Init /\ [][Next]_vars

\* one goroutine, containers that evict nothing (testing.AllocsPerRun)
InitSolo == Init /\ ~lossy
NextSolo == \E t \in {1} : Step(t)
SpecSolo == InitSolo /\ [][NextSolo]_vars

\* a goroutine inside a call goes on running: the Go scheduler starves no goroutine
Continue(t) == pc[t] # "idle" /\ Step(t)
FairSpec ==
    InitWith(MaxFairOps) /\ [][Next]_vars /\ \A t \in Threads : WF_vars(Continue(t))

\* ------------------------------------------------------------------ reading a step
GetStart(t) == GetAcquireHit(t) \/ GetAcquireNew(t) \/ GetAcquireNil(t)
PutStart(t) == PutAcquireSpare(t) \/ PutAcquireAlloc(t)
GetStarts(t) == pc[t] = "idle" /\ pc'[t] = "g_read"
PutStarts(t) == pc[t] = "idle" /\ pc'[t] \in {"p_write", "panic"}
Moves(t) == pc'[t] # pc[t]
\* own steps a call still has to take
Rank(l) == CASE l = "g_read" -> 3 [] l = "g_rel" -> 2 [] l = "g_ret" -> 1
             [] l = "p_write" -> 2 [] l = "p_rel" -> 1 [] l = "idle" -> 0
             [] OTHER -> 4
\* the cell goroutine t holds between its container Get and its container Put
Holds(t, c) ==
    \/ pc[t] \in {"g_read", "g_rel"} /\ pooled[t] = c
    \/ pc[t] \in {"p_write", "p_rel"} /\ ptr[t] = c
InHand(t) == IF \E c \in Cells : Holds(t, c) THEN 1 ELSE 0
RECURSIVE SumInHand(_)
SumInHand(n) == IF n = 0 THEN 0 ELSE InHand(n) + SumInHand(n - 1)
\* cells the containers have evicted
Evicted == ncells - BagSize(items) - BagSize(pointers) - SumInHand(NumThreads)

\* ------------------------------------------------------------------ ownership
\* how many times value v is in use by callers
Holdings(v) ==
    Cardinality({<<t, i>> \in Threads \X (1..MaxOps) : i <= Len(held[t]) /\ held[t][i] = v})

\* C1: in a pool built by New whose callers Put only values they hold from Get and
\* stop using them, no value is in use by two callers (or twice) at the same time,
\* under every interleaving of the steps of Get and Put.
C1_NoAliasing ==
    (hasNew /\ disciplined) => \A v \in Value : Holdings(v) <= 1

\* two goroutines use values at once, one of them a value that went through the pool
C1_Witness ==
    /\ hasNew /\ disciplined
    /\ \E t, u \in Threads :
          t # u /\ Len(held[t]) > 0 /\ Len(held[u]) > 0 /\ held[t][1] \in putLog

\* ------------------------------------------------------------------ round trip
\* C2 as stated: a Get that is the first call after a Put(v), no other call running
\* or started in between, returns v.
C2_RoundTrip ==
    \A t \in Threads :
        (pc[t] = "g_ret" /\ expect[t] # <<>>) => item[t] = expect[t][1]

\* C2 amended: it returns v when, besides, the containers evict nothing and items
\* held no other cell than the one that Put released.
C2_RoundTripSole ==
    \A t \in Threads :
        (pc[t] = "g_ret" /\ expect[t] # <<>> /\ ~lossy /\ expect[t][2] = 1)
            => item[t] = expect[t][1]

\* such a Get is about to return a value a caller made and Put
C2_Witness ==
    \E t \in Threads :
        /\ pc[t] = "g_ret" /\ expect[t] # <<>> /\ ~lossy /\ expect[t][2] = 1
        /\ path[t] = "hit" /\ item[t] \in Foreign

\* ------------------------------------------------------------------ provenance
\* C3: in a pool built by New, a value Get is about to return is the result of the
\* item() call this Get made, or a value passed to Put before; Get never takes its
\* zero-value branch; and when every value passed to Put had the length of the
\* factory's slices, so has the value returned.
C3_Provenance ==
    hasNew => \A t \in Threads :
        pc[t] = "g_ret" =>
            /\ path[t] # "nil"
            /\ \/ path[t] = "new" /\ item[t] = made[t]
               \/ path[t] = "hit" /\ item[t] \in putLog
            /\ (\A v \in putLog : SliceLen(v) = FactoryLen)
                  => SliceLen(item[t]) = FactoryLen

\* a Get of a New-built pool is about to return a recycled factory slice
C3_Witness ==
    /\ hasNew
    /\ \A v \in putLog : SliceLen(v) = FactoryLen
    /\ \E t \in Threads : pc[t] = "g_ret" /\ path[t] = "hit" /\ item[t] \in putLog

\* ------------------------------------------------------------------ zero value
\* C4: on the zero value of Pool[T], item() is never called, no call panics, a Get
\* takes its zero-value branch exactly when it finds items empty and then returns the
\* zero value of T, and otherwise returns the argument of the Put that placed the cell
\* it drew (each placement is drawn once).
C4_ZeroValuePool ==
    [][ ~hasNew =>
          /\ nfactory' = 0
          /\ \A t \in Threads :
                /\ pc'[t] # "panic"
                /\ (path[t] = "none" /\ path'[t] = "nil") => IsEmpty(items)
                /\ (path[t] = "none" /\ path'[t] = "hit") => ~IsEmpty(items)
                /\ path'[t] \notin {"new"}
                /\ pc'[t] = "g_ret" =>
                      \/ path'[t] = "nil" /\ item'[t] = Zero
                      \/ /\ path'[t] = "hit"
                         /\ drew'[t] # <<>>
                         /\ item'[t] = drew'[t][1]
                         /\ item'[t] \in putLog' ]_vars

\* the zero-value pool has served Get, Put, Get: the first Get returned the zero value
\* and the second is about to return the value that was Put
C4_Witness ==
    /\ ~hasNew /\ ops >= 3
    /\ \E t \in Threads :
          /\ pc[t] = "g_ret" /\ path[t] = "hit" /\ item[t] \in Foreign
          /\ Len(held[t]) > 0 /\ held[t][1] = Zero

\* ------------------------------------------------------------------ allocation
\* C5: one goroutine, no eviction, pool built by New or zero value: once the calls so
\* far alternate Get, Put, Get, ... no step of the third or a later call allocates a
\* cell or calls item().
C5_NoAllocAfterWarmUp ==
    [][(alt' \in {"G", "P"} /\ ops' >= 3) => (ncells' = ncells /\ nfactory' = nfactory)]_vars

\* the fourth call of an alternating run, a Put, has drawn a spare cell
C5_Witness ==
    alt = "P" /\ ops >= 4 /\ pc[1] = "p_rel" /\ path[1] = "spare"

\* ------------------------------------------------------------------ progress
\* C6: a call never panics; its first statement can always run; a started call always
\* has a next step of its own, no step of another goroutine sets it back, each own step
\* brings it nearer to its return (three steps at most remain), and so it returns.
C6_NonBlocking ==
    /\ [](\A t \in Threads :
            /\ pc[t] # "panic"
            /\ (pc[t] = "idle" /\ ops < limit /\ t <= joined + 1)
                  => (ENABLED GetStart(t) /\ ENABLED PutStart(t))
            /\ pc[t] # "idle" => ENABLED Continue(t))
    /\ [][\A t \in Threads :
            pc[t] # "idle" => (pc'[t] = pc[t] \/ Rank(pc'[t]) < Rank(pc[t]))]_vars
    /\ \A t \in Threads : (pc[t] # "idle") ~> (pc[t] = "idle")

\* two calls are running at once, one of them a Put holding a drawn spare cell
C6_Witness ==
    \E t, u \in Threads :
        t # u /\ pc[t] = "g_rel" /\ pc[u] = "p_write" /\ path[u] = "spare"

\* ------------------------------------------------------------------ eviction
\* C7: whatever the containers evict, no call panics; a Get that finds items empty
\* returns the value of a fresh item() call (pool built by New) or the zero value (zero
\* pool); a Put that finds pointers empty allocates a cell, and every Put leaves its
\* item in items, in the cell it holds.
C7_DiscardNoFailure ==
    [][\A t \in Threads :
          /\ pc'[t] # "panic"
          /\ (GetStarts(t) /\ IsEmpty(items)) =>
                path'[t] = (IF hasNew THEN "new" ELSE "nil")
          /\ (pc'[t] = "g_ret" /\ path'[t] = "new") =>
                (hasNew /\ item'[t] = made'[t] /\ item'[t] > 0)
          /\ (pc'[t] = "g_ret" /\ path'[t] = "nil") => (~hasNew /\ item'[t] = Zero)
          /\ (PutStarts(t) /\ IsEmpty(pointers)) =>
                (path'[t] = "alloc" /\ ncells' = ncells + 1 /\ ptr'[t] = ncells')
          /\ (pc[t] = "p_rel" /\ Moves(t)) =>
                (items' = BagPut(items, ptr[t]) /\ mem[ptr[t]] = item[t]) ]_vars

\* after an eviction a Put has allocated a cell and is about to release it into items
C7_Witness ==
    /\ lossy /\ Evicted > 0
    /\ \E t \in Threads : pc[t] = "p_rel" /\ path[t] = "alloc" /\ mem[ptr[t]] = item[t]

\* ------------------------------------------------------------------ the cold path of Get
\* C8 as stated: a Get that draws nothing from items and runs item() creates no cell
\* and leaves both containers as they are.
C8_ColdGetNoCell ==
    [][\A t \in Threads :
          (path'[t] = "new" /\ Moves(t)) =>
              (ncells' = ncells /\ items' = items /\ pointers' = pointers)]_vars

\* C8 amended: such a Get leaves items as it is and returns the item() value, but it
\* allocates one cell, which holds that value, and releases this cell into pointers.
C8_ColdGetCell ==
    [][\A t \in Threads :
          (path'[t] = "new" /\ Moves(t)) =>
              /\ items' = items
              /\ GetStarts(t) =>
                    /\ ncells' = ncells + 1 /\ nfactory' = nfactory + 1
                    /\ pooled'[t] = ncells' /\ mem'[ncells'] = made'[t]
                    /\ pointers' = pointers
              /\ pc[t] = "g_read" =>
                    (item'[t] = made[t] /\ ncells' = ncells /\ pointers' = pointers)
              /\ pc[t] = "g_rel" =>
                    (pointers' = BagPut(pointers, pooled[t]) /\ ncells' = ncells) ]_vars

\* a cold-path Get is about to return and its cell sits in pointers
C8_Witness ==
    \E t \in Threads :
        pc[t] = "g_ret" /\ path[t] = "new" /\ pointers[ptr[t]] = 1 /\ item[t] = made[t]

\* ------------------------------------------------------------------ when cells are allocated
\* C9 as stated: a cell is allocated only while both containers are empty.
C9_AllocOnlyBothEmpty ==
    [][ncells' # ncells => (IsEmpty(items) /\ IsEmpty(pointers))]_vars

\* C9 amended: a cell is allocated only by a Put that finds pointers empty or by a
\* Get of a New-built pool that finds items empty (the other container may hold
\* cells); a Put that finds a cell in pointers allocates nothing and takes that cell.
C9_AllocOnlyOnOwnMiss ==
    [][/\ ncells' # ncells =>
            \E t \in Threads :
                \/ PutStarts(t) /\ path'[t] = "alloc" /\ IsEmpty(pointers)
                \/ GetStarts(t) /\ path'[t] = "new" /\ IsEmpty(items) /\ hasNew
       /\ \A t \in Threads :
            (PutStarts(t) /\ ~IsEmpty(pointers)) =>
                /\ path'[t] = "spare" /\ ncells' = ncells
                /\ pointers[ptr'[t]] > 0 /\ pointers' = BagTake(pointers, ptr'[t]) ]_vars

\* a Put has allocated a cell while items held one
C9_Witness ==
    \E t \in Threads : pc[t] = "p_write" /\ path[t] = "alloc" /\ ~IsEmpty(items)

\* ------------------------------------------------------------------ stale payloads
\* C10: every cell in items holds the argument of the Put that released it there; a
\* Put has stored its item in its cell before it releases the cell; and a Get that drew
\* a cell from items has read that Put's item, never the payload left in a spare cell.
C10_NoStaleRead ==
    /\ \A c \in Cells : items[c] > 0 => placed[c] = <<mem[c]>>
    /\ \A t \in Threads :
          /\ pc[t] = "p_rel" => mem[ptr[t]] = item[t]
          /\ (pc[t] \in {"g_rel", "g_ret"} /\ path[t] = "hit") => drew[t] = <<item[t]>>

\* the only cell ever allocated went through pointers with a factory slice in it, was
\* overwritten by a Put, and a Get is about to return that Put's item
C10_Witness ==
    /\ hasNew /\ ncells = 1
    /\ \E t \in Threads : pc[t] = "g_ret" /\ path[t] = "hit" /\ item[t] \in Foreign

\* ------------------------------------------------------------------ the warm path of Get
\* C11: a Get that drew a cell from items holds that cell, outside both containers,
\* until it has read it; it then releases that same cell into pointers; and from the
\* read to its return its item is the payload the cell had when drawn, whatever a
\* Put that draws the released cell writes into it meanwhile.
C11_ReadThenRelease ==
    /\ [](\A t \in Threads : path[t] = "hit" =>
            /\ pc[t] \in {"g_read", "g_rel"} =>
                  (items[pooled[t]] = 0 /\ pointers[pooled[t]] = 0)
            /\ pc[t] = "g_rel" => (ptr[t] = pooled[t] /\ item[t] = mem[ptr[t]])
            /\ pc[t] \in {"g_rel", "g_ret"} => (drew[t] # <<>> /\ item[t] = drew[t][1]))
    /\ [][\A t \in Threads :
            /\ (GetStarts(t) /\ path'[t] = "hit") =>
                  (items[pooled'[t]] > 0 /\ drew'[t] = <<mem[pooled'[t]]>>)
            /\ (path[t] = "hit" /\ pc[t] = "g_read" /\ Moves(t)) =>
                  (pc'[t] = "g_rel" /\ pointers' = pointers)
            /\ (path[t] = "hit" /\ pc[t] = "g_rel" /\ Moves(t)) =>
                  (pc'[t] = "g_ret" /\ pointers' = BagPut(pointers, pooled[t]))
            /\ (path[t] = "hit" /\ pc[t] = "g_ret" /\ Moves(t)) =>
                  held'[t] = Insert(held[t], drew[t][1]) ]_vars

\* a warm-path Get is about to return while a Put of another goroutine has drawn the
\* cell it released and overwritten the payload
C11_Witness ==
    \E t \in Threads :
        /\ pc[t] = "g_ret" /\ path[t] = "hit"
        /\ mem[ptr[t]] # item[t]
        /\ \E u \in Threads \ {t} : pc[u] = "p_rel" /\ ptr[u] = ptr[t]

\* ------------------------------------------------------------------ the two paths of Put
\* C12: a Put allocates a cell, one, exactly when its p.pointers.Get() returns nil, and
\* then uses that new cell; when a spare cell is returned it allocates nothing and uses
\* the cell drawn, which leaves pointers; no later step of a Put allocates; and a Put
\* adds to items one cell only, the one it uses, with its item stored in it, at its
\* last step.
C12_PutAllocatesOnMiss ==
    [][\A t \in Threads :
          /\ PutStarts(t) =>
                /\ (pooled'[t] = Nil) <=> (ncells' = ncells + 1)
                /\ (pooled'[t] # Nil) <=> (ncells' = ncells)
                /\ pooled'[t] = Nil =>
                      (IsEmpty(pointers) /\ ptr'[t] = ncells' /\ pointers' = pointers)
                /\ pooled'[t] # Nil =>
                      /\ ptr'[t] = pooled'[t] /\ pointers[ptr'[t]] > 0
                      /\ pointers' = BagTake(pointers, ptr'[t])
                /\ items' = items /\ nfactory' = nfactory
          /\ (pc[t] = "p_write" /\ Moves(t)) =>
                /\ pc'[t] = "p_rel" /\ ptr'[t] = ptr[t] /\ mem'[ptr[t]] = item[t]
                /\ items' = items /\ pointers' = pointers /\ counts' = counts
          /\ (pc[t] = "p_rel" /\ Moves(t)) =>
                /\ pc'[t] = "idle" /\ mem[ptr[t]] = item[t]
                /\ items' = BagPut(items, ptr[t])
                /\ pointers' = pointers /\ mem' = mem /\ counts' = counts ]_vars

\* two Puts are about to release their cells: one drew a spare cell, the other found
\* pointers empty and allocated its cell
C12_Witness ==
    \E t, u \in Threads :
        /\ pc[t] = "p_rel" /\ path[t] = "spare" /\ pooled[t] = ptr[t]
        /\ pc[u] = "p_rel" /\ path[u] = "alloc" /\ pooled[u] = Nil /\ ptr[u] = ncells
        /\ mem[ptr[t]] = item[t] /\ mem[ptr[u]] = item[u]

\* ------------------------------------------------------------------ calls of the factory
\* C13: in a pool built by New, item() is called only by the first statement of a Get
\* that finds items empty, once per such Get; no later step of a Get, no Get that
\* draws a cell and no step of a Put calls it.
C13_FactoryOnlyOnEmpty ==
    [][hasNew =>
          /\ nfactory' # nfactory =>
                /\ nfactory' = nfactory + 1
                /\ IsEmpty(items)
                /\ \E t \in Threads :
                      GetStarts(t) /\ path'[t] = "new" /\ made'[t] = Factory(nfactory')
          /\ \A t \in Threads :
                /\ (GetStarts(t) /\ path'[t] = "hit") =>
                      (~IsEmpty(items) /\ nfactory' = nfactory)
                /\ (GetStarts(t) /\ IsEmpty(items)) =>
                      (path'[t] = "new" /\ nfactory' = nfactory + 1)
                /\ (pc[t] # "idle" /\ Moves(t)) => nfactory' = nfactory
                /\ PutStarts(t) => nfactory' = nfactory ]_vars

\* after three calls or more item() has run once only, and a Get of the second
\* goroutine has drawn a pooled cell
C13_Witness ==
    /\ hasNew /\ nfactory = 1 /\ ops >= 3
    /\ \E t \in Threads : pc[t] = "g_read" /\ path[t] = "hit" /\ t # 1

\* ------------------------------------------------------------------ where the cells of items come from
\* C14: a cell enters items only at the last step of a Put, one cell at a time, and it
\* is the cell that Put uses: the cell it allocated at its first step when it found
\* pointers empty, or the cell it drew from pointers then.  No step of a Get and no
\* eviction adds a cell to items.
C14_CellProvenance ==
    [][/\ \A c \in Cells : items'[c] > items[c] =>
              /\ items' = BagPut(items, c)
              /\ \E t \in Threads :
                    /\ pc[t] = "p_rel" /\ Moves(t) /\ ptr[t] = c
                    /\ \/ path[t] = "alloc" /\ pooled[t] = Nil
                       \/ path[t] = "spare" /\ pooled[t] = c
       /\ \A t \in Threads :
              /\ (PutStarts(t) /\ path'[t] = "alloc") =>
                    (IsEmpty(pointers) /\ ncells' = ncells + 1 /\ ptr'[t] = ncells')
              /\ (PutStarts(t) /\ path'[t] = "spare") =>
                    (pointers[ptr'[t]] > 0 /\ pointers' = BagTake(pointers, ptr'[t]))
              /\ (pc[t] = "p_write" /\ Moves(t)) =>
                    (ptr'[t] = ptr[t] /\ path'[t] = path[t] /\ pooled'[t] = pooled[t])
              /\ pc'[t] \in {"p_write", "p_rel"} => path'[t] \in {"alloc", "spare"} ]_vars

\* items holds two cells of a pool built by New: both were allocated by a Get and
\* came through pointers
C14_Witness ==
    hasNew /\ BagSize(items) = 2 /\ ncells = nfactory /\ ncells = 2

\* ------------------------------------------------------------------ one place per cell
\* goroutines holding cell c
Holders(c) == Cardinality({t \in Threads : Holds(t, c)})

\* C15: every allocated cell is in one place at most: once in items, once in pointers,
\* or held by one running Get or Put between its draw (or allocation) and its release;
\* a cell in none of these has been evicted.  A goroutine holds one cell at most, and a
\* cell not yet allocated is nowhere.
C15_CellExclusive ==
    /\ \A c \in Cells :
          /\ items[c] + pointers[c] + Holders(c) <= 1
          /\ c > ncells => items[c] + pointers[c] + Holders(c) = 0
    /\ \A t \in Threads : Cardinality({c \in Cells : Holds(t, c)}) <= 1
    /\ Evicted >= 0
    /\ ~lossy => Evicted = 0

\* three cells in three places: one in items, one in pointers and one held by a
\* running call, while another call is running too
C15_Witness ==
    \E c, d, e \in Cells :
        /\ c # d /\ d # e /\ c # e
        /\ items[c] = 1 /\ pointers[d] = 1 /\ Holders(e) = 1
        /\ \A t \in Threads : pc[t] # "idle"

\* ------------------------------------------------------------------ spare cells and values in use
\* values Get has returned and whose Put has not started
RECURSIVE Outstanding(_)
Outstanding(n) == IF n = 0 THEN 0 ELSE Len(held[n]) + Outstanding(n - 1)

\* C16: in a pool built by New whose containers evict nothing (and return a cell
\* whenever they hold one) and whose callers Put only values they hold from Get, each
\* once: pointers holds at least as many cells as there are values returned by Get
\* and not yet passed to Put; no Put has allocated a cell; and the cells allocated are
\* as many as the calls of item().
C16_SparesCoverItems ==
    (hasNew /\ ~lossy /\ disciplined) =>
        /\ BagSize(pointers) >= Outstanding(NumThreads)
        /\ \A t \in Threads : path[t] # "alloc"
        /\ ncells = nfactory

\* two goroutines use values of such a pool, two spare cells wait in pointers, and a
\* Put has gone through before on a spare cell
C16_Witness ==
    /\ hasNew /\ ~lossy /\ disciplined
    /\ Outstanding(NumThreads) = 2 /\ BagSize(pointers) = 2
    /\ \A t \in Threads : Len(held[t]) = 1
    /\ putLog # {}

\* ------------------------------------------------------------------ the zero-value branch of Get
\* C17: on the zero value of Pool[T], a Get that finds items empty takes its
\* zero-value branch, and no step of such a Get changes items or pointers, allocates a
\* cell or calls item(): it draws no cell, skips the release into pointers, and hands
\* the zero value of T to its caller.
C17_ZeroGetNoEffect ==
    [][\A t \in Threads :
          /\ (~hasNew /\ GetStarts(t) /\ IsEmpty(items)) =>
                (path'[t] = "nil" /\ pooled'[t] = Nil)
          /\ ((path[t] = "nil" \/ path'[t] = "nil") /\ Moves(t)) =>
                /\ ~hasNew
                /\ items' = items /\ pointers' = pointers
                /\ counts' = counts /\ mem' = mem
                /\ pc[t] = "g_read" => (pc'[t] = "g_ret" /\ item'[t] = Zero)
                /\ pc[t] = "g_ret" => held'[t] = Insert(held[t], Zero)
                /\ pc'[t] # "g_rel" ]_vars

\* a Get of the zero-value pool is about to return the zero value; pointers still
\* holds the one cell there is, allocated by an earlier Put and drained by a Get
C17_Witness ==
    /\ ~hasNew /\ ~lossy /\ ncells = 1 /\ BagSize(pointers) = 1 /\ IsEmpty(items)
    /\ \E t \in Threads : pc[t] = "g_ret" /\ path[t] = "nil" /\ item[t] = Zero

====
